---- MODULE Spec2Model ----
(***************************************************************************)
(* Model of the curses text editor TextEditor (src/curses/claude.py): the  *)
(* document, the cursor, the selection anchor, the viewport and the        *)
(* clipboard, with one action per key handled by handle_input.             *)
(* The Editor widget of src/textual/main.py is modelled beside it, on the  *)
(* variables editor_lines, cursor_row and cursor_col.                      *)
(*                                                                         *)
(* A string is a sequence of one-character strings; rows and columns are   *)
(* 0-based as in the source, so row y of the document is content[y + 1].   *)
(* written is the last write of save_file, <<path, text>>, or None; key is  *)
(* the last key handled and branch the path its handler took.              *)
(***************************************************************************)
EXTENDS Integers, Sequences, FiniteSets, TLC

VARIABLES content, cursor_y, cursor_x, scroll_y, scroll_x, height, width,
          selection_start, clipboard, message, message_timeout, filename,
          written, key, branch, status,
          editor_lines, cursor_row, cursor_col

vars == <<content, cursor_y, cursor_x, scroll_y, scroll_x, height, width,
          selection_start, clipboard, message, message_timeout, filename,
          written, key, branch, status,
          editor_lines, cursor_row, cursor_col>>

(***************************************************************************)
(* Bounds of the model.                                                    *)
(***************************************************************************)
\* lines of the document; characters of the document after a character is
\* typed, after a paste, and after a Tab
MaxLines == 3
MaxTyped == 2
MaxPasted == 3
MaxTabbed == 4
\* the column a stale cursor (beyond the end of its line) may be typed up to
MaxCol == 4
\* the scroll offsets update_scroll is called with
MaxScroll == 3
\* the most characters the lines of the Textual widget hold after an enter
MaxEditorText == 5

(***************************************************************************)
(* Python values and primitives.                                           *)
(***************************************************************************)
NL == "\n"
None == <<>>
NoName == ""
\* pyperclip has no copy/paste mechanism: copy() and paste() raise
Unavailable == <<"PyperclipException">>

Min(a, b) == IF a < b THEN a ELSE b
Max(a, b) == IF a > b THEN a ELSE b

\* s[:k] for k >= 0
Take(s, k) == SubSeq(s, 1, Min(k, Len(s)))
\* s[k:] for k >= 0
Drop(s, k) == SubSeq(s, Min(k, Len(s)) + 1, Len(s))
\* s[i:j] for i, j >= 0
Slice(s, i, j) == SubSeq(s, Min(i, Len(s)) + 1, Min(j, Len(s)))

\* list.insert(i, x): an index beyond the end appends
ListInsert(l, i, x) == Take(l, i) \o <<x>> \o Drop(l, i)
\* list.pop(i) for a valid index i
ListPop(l, i) == Take(l, i) \o Drop(l, i + 1)
\* l[i] = x for a valid index i
ListSet(l, i, x) == [l EXCEPT ![i + 1] = x]

RECURSIVE SplitNL(_)
\* text.split('\n')
SplitNL(t) ==
    IF \A i \in 1..Len(t) : t[i] # NL THEN <<t>>
    ELSE LET i == CHOOSE j \in 1..Len(t) :
                      t[j] = NL /\ \A k \in 1..(j - 1) : t[k] # NL
         IN  <<SubSeq(t, 1, i - 1)>> \o SplitNL(SubSeq(t, i + 1, Len(t)))

RECURSIVE JoinNoSeparator(_)
\* a join that leaves the separator out
JoinNoSeparator(ls) ==
    IF ls = <<>> THEN <<>> ELSE ls[1] \o JoinNoSeparator(Tail(ls))

RECURSIVE JoinNL(_)
\* '\n'.join(lines)
JoinNL(ls) ==
    IF ls = <<>> THEN <<>>
    ELSE IF Len(ls) = 1 THEN ls[1]
    ELSE ls[1] \o <<NL>> \o JoinNL(Tail(ls))

\* text.splitlines() for text whose only line terminator is '\n'
SplitLines(t) ==
    LET p == SplitNL(t)
    IN  IF p[Len(p)] = <<>> THEN SubSeq(p, 1, Len(p) - 1) ELSE p

RECURSIVE SumLen(_)
SumLen(ls) == IF ls = <<>> THEN 0 ELSE Len(ls[1]) + SumLen(Tail(ls))

(***************************************************************************)
(* The environment: keys, terminal sizes, files and clipboard contents.    *)
(***************************************************************************)
Printable == {"a", " "}
TabWidth == 4
\* a Tab key that inserts a literal tab character
TabTextLiteral == <<"\t">>

\* the text the Tab key inserts
TabText == [i \in 1..TabWidth |-> " "]
DefaultTimeout == 50

Sizes == {<<3, 3>>, <<4, 5>>, <<9, 9>>}
FileNames == {"f"}
FileTexts == { <<>>, <<"a", NL>>, <<"a", NL, " ">>,
               <<"a", " ", NL, " ", NL, "a">> }
ClipTexts == { <<>>, <<"a">>, <<" ", NL, "a">>, <<NL, "a", NL>> }

\* content[cursor_y] raises no IndexError
ValidRow == cursor_y < Len(content)
\* the cursor is a position of the document
ValidCursor == ValidRow /\ cursor_x <= Len(content[cursor_y + 1])

(***************************************************************************)
(* set_message, load_file.                                                 *)
(***************************************************************************)
SetMessage(m) == /\ message' = m
                 /\ message_timeout' = DefaultTimeout

\* load_file without the guard that replaces an empty list of lines by [""]
LoadFileNoGuard(r) ==
    IF r.kind = "ok" THEN SplitLines(r.text) ELSE << <<>> >>

\* the document load_file leaves for a read result r
LoadFile(r) ==
    IF r.kind = "ok"
    THEN IF SplitLines(r.text) = <<>> THEN << <<>> >> ELSE SplitLines(r.text)
    ELSE << <<>> >>

\* a load_file that sets a message only when the file does not exist
LoadMessageNotFoundOnly(r, name) ==
    IF r.kind = "notfound" THEN << <<"New file: ", name>>, DefaultTimeout >>
    ELSE <<message, message_timeout>>

\* the message and its timeout load_file leaves for a read result r
LoadMessage(r, name) ==
    IF r.kind = "ok" THEN <<message, message_timeout>>
    ELSE IF r.kind = "notfound" THEN << <<"New file: ", name>>, DefaultTimeout >>
    ELSE << <<"Error loading file: ", name>>, DefaultTimeout >>

ReadResults == {[kind |-> "ok", text |-> t] : t \in FileTexts}
                 \cup {[kind |-> "notfound", text |-> <<>>],
                       [kind |-> "error", text |-> <<>>]}

(***************************************************************************)
(* Initial state: TextEditor.__init__.                                     *)
(***************************************************************************)
Init ==
    /\ \E name \in FileNames \cup {NoName}, r \in ReadResults :
          /\ filename = name
          /\ content = IF name # NoName THEN LoadFile(r) ELSE << <<>> >>
          /\ message = IF name # NoName /\ r.kind = "notfound"
                          THEN <<"New file: ", name>>
                       ELSE IF name # NoName /\ r.kind = "error"
                          THEN <<"Error loading file: ", name>>
                       ELSE <<>>
          /\ message_timeout = IF name # NoName /\ r.kind # "ok"
                                  THEN DefaultTimeout ELSE 0
    /\ cursor_y = 0
    /\ cursor_x = 0
    /\ scroll_y = 0
    /\ scroll_x = 0
    /\ \E s \in Sizes : height = s[1] /\ width = s[2]
    /\ selection_start = None
    /\ clipboard \in ClipTexts \cup {Unavailable}
    /\ written = None
    /\ key = "none"
    /\ branch = "init"
    /\ status = "running"
    /\ editor_lines = << <<>> >>
    /\ cursor_row = 0
    /\ cursor_col = 0

(***************************************************************************)
(* update_scroll and move_cursor.                                          *)
(***************************************************************************)
\* a scroll rule that lets the cursor reach the row and the column just
\* past the window before it scrolls
UpdateScrollLate(cy, cx) ==
    << IF cy < scroll_y THEN cy
       ELSE IF cy > scroll_y + height - 2 THEN cy - height + 3
       ELSE scroll_y,
       IF cx < scroll_x THEN cx
       ELSE IF cx > scroll_x + width - 2 THEN cx - width + 3
       ELSE scroll_x >>

\* a scroll rule that puts the cursor on the first row and column of the
\* window whenever it was past the window's end
UpdateScrollToCursor(cy, cx) ==
    << IF cy < scroll_y THEN cy
       ELSE IF cy >= scroll_y + height - 2 THEN cy
       ELSE scroll_y,
       IF cx < scroll_x THEN cx
       ELSE IF cx >= scroll_x + width - 2 THEN cx
       ELSE scroll_x >>

\* the scroll offsets update_scroll leaves for the cursor (cy, cx)
UpdateScroll(cy, cx) ==
    << IF cy < scroll_y THEN cy
       ELSE IF cy >= scroll_y + height - 2 THEN cy - height + 3
       ELSE scroll_y,
       IF cx < scroll_x THEN cx
       ELSE IF cx >= scroll_x + width - 2 THEN cx - width + 3
       ELSE scroll_x >>

\* a vertical move that keeps the column when the row changes
MoveCursorKeepColumn(dy, dx) ==
    LET new_y == Max(0, Min(Len(content) - 1, cursor_y + dy))
        vy == IF dy # 0 THEN new_y ELSE cursor_y
        vx == cursor_x
    IN  IF dx = 0 THEN [y |-> vy, x |-> vx, ok |-> TRUE]
        ELSE IF dx < 0 /\ vx = 0 /\ vy > 0
        THEN [y |-> vy - 1, x |-> Len(content[vy]), ok |-> TRUE]
        ELSE IF dx > 0 /\ vx = Len(content[vy + 1]) /\ vy < Len(content) - 1
        THEN [y |-> vy + 1, x |-> 0, ok |-> TRUE]
        ELSE [y |-> vy,
              x |-> Max(0, Min(Len(content[vy + 1]), vx + dx)),
              ok |-> TRUE]

\* a horizontal move that stops at the end of a line
MoveCursorNoWrap(dy, dx) ==
    LET new_y == Max(0, Min(Len(content) - 1, cursor_y + dy))
        vy == IF dy # 0 THEN new_y ELSE cursor_y
        vx == IF dy # 0 /\ new_y # cursor_y
                 THEN Min(cursor_x, Len(content[new_y + 1]))
                 ELSE cursor_x
    IN  IF dx = 0 THEN [y |-> vy, x |-> vx, ok |-> TRUE]
        ELSE IF dx < 0 /\ vx = 0 /\ vy > 0
        THEN [y |-> vy - 1, x |-> Len(content[vy]), ok |-> TRUE]
        ELSE [y |-> vy,
              x |-> Max(0, Min(Len(content[vy + 1]), vx + dx)),
              ok |-> TRUE]

\* the cursor move_cursor(dy, dx) leaves; ok is FALSE when an index into
\* content is out of range (IndexError), with the assignments made so far
MoveCursor(dy, dx) ==
    LET new_y == Max(0, Min(Len(content) - 1, cursor_y + dy))
        vy == IF dy # 0 THEN new_y ELSE cursor_y
        vx == IF dy # 0 /\ new_y # cursor_y
                 THEN Min(cursor_x, Len(content[new_y + 1]))
                 ELSE cursor_x
    IN  IF dx = 0 THEN [y |-> vy, x |-> vx, ok |-> TRUE]
        ELSE IF dx < 0 /\ vx = 0 /\ vy > 0
        THEN IF vy - 1 < Len(content)
                THEN [y |-> vy - 1, x |-> Len(content[vy]), ok |-> TRUE]
                ELSE [y |-> vy - 1, x |-> vx, ok |-> FALSE]
        ELSE IF vy >= Len(content)
        THEN [y |-> vy, x |-> vx, ok |-> FALSE]
        ELSE IF dx > 0 /\ vx = Len(content[vy + 1]) /\ vy < Len(content) - 1
        THEN [y |-> vy + 1, x |-> 0, ok |-> TRUE]
        ELSE [y |-> vy,
              x |-> Max(0, Min(Len(content[vy + 1]), vx + dx)),
              ok |-> TRUE]

\* a key whose handler is one call of move_cursor(dy, dx)
MoveKey(k, dy, dx) ==
    LET m == MoveCursor(dy, dx)
    IN  /\ status = "running"
        /\ key' = k
        /\ cursor_y' = m.y
        /\ cursor_x' = m.x
        /\ scroll_y' = IF m.ok THEN UpdateScroll(m.y, m.x)[1] ELSE scroll_y
        /\ scroll_x' = IF m.ok THEN UpdateScroll(m.y, m.x)[2] ELSE scroll_x
        /\ branch' = IF m.ok THEN "moved" ELSE "IndexError"
        /\ status' = IF m.ok THEN "running" ELSE "crashed"

(***************************************************************************)
(* handle_input: navigation keys.                                          *)
(***************************************************************************)
KeyResize ==
    /\ status = "running"
    /\ \E s \in Sizes : height' = s[1] /\ width' = s[2]
    /\ key' = "KEY_RESIZE"
    /\ branch' = "resized"
    /\ UNCHANGED <<content, cursor_y, cursor_x, scroll_y, scroll_x,
                   selection_start, clipboard, message, message_timeout,
                   filename, status>>
    /\ UNCHANGED <<written, editor_lines, cursor_row, cursor_col>>

KeyUp ==
    /\ MoveKey("KEY_UP", -1, 0)
    /\ UNCHANGED <<content, height, width, selection_start, clipboard,
                   message, message_timeout, filename>>
    /\ UNCHANGED <<written, editor_lines, cursor_row, cursor_col>>

KeyDown ==
    /\ MoveKey("KEY_DOWN", 1, 0)
    /\ UNCHANGED <<content, height, width, selection_start, clipboard,
                   message, message_timeout, filename>>
    /\ UNCHANGED <<written, editor_lines, cursor_row, cursor_col>>

KeyLeft ==
    /\ MoveKey("KEY_LEFT", 0, -1)
    /\ UNCHANGED <<content, height, width, selection_start, clipboard,
                   message, message_timeout, filename>>
    /\ UNCHANGED <<written, editor_lines, cursor_row, cursor_col>>

KeyRight ==
    /\ MoveKey("KEY_RIGHT", 0, 1)
    /\ UNCHANGED <<content, height, width, selection_start, clipboard,
                   message, message_timeout, filename>>
    /\ UNCHANGED <<written, editor_lines, cursor_row, cursor_col>>

KeyPPage ==
    /\ MoveKey("KEY_PPAGE", (-height) + 2, 0)
    /\ UNCHANGED <<content, height, width, selection_start, clipboard,
                   message, message_timeout, filename>>
    /\ UNCHANGED <<written, editor_lines, cursor_row, cursor_col>>

\* a Page Down that moves two rows less than the frame has
KeyNPageLessTwo ==
    /\ MoveKey("KEY_NPAGE", height - 4, 0)
    /\ UNCHANGED <<content, height, width, selection_start, clipboard,
                   message, message_timeout, filename>>
    /\ UNCHANGED <<written, editor_lines, cursor_row, cursor_col>>

KeyNPage ==
    /\ MoveKey("KEY_NPAGE", height - 2, 0)
    /\ UNCHANGED <<content, height, width, selection_start, clipboard,
                   message, message_timeout, filename>>
    /\ UNCHANGED <<written, editor_lines, cursor_row, cursor_col>>

KeyHome ==
    /\ status = "running"
    /\ cursor_x' = 0
    /\ key' = "KEY_HOME"
    /\ branch' = "moved"
    /\ UNCHANGED <<content, cursor_y, scroll_y, scroll_x, height, width,
                   selection_start, clipboard, message, message_timeout,
                   filename, status>>
    /\ UNCHANGED <<written, editor_lines, cursor_row, cursor_col>>

KeyEnd ==
    /\ status = "running"
    /\ key' = "KEY_END"
    /\ IF ValidRow
          THEN /\ cursor_x' = Len(content[cursor_y + 1])
               /\ branch' = "moved"
               /\ status' = "running"
          ELSE /\ cursor_x' = cursor_x
               /\ branch' = "IndexError"
               /\ status' = "crashed"
    /\ UNCHANGED <<content, cursor_y, scroll_y, scroll_x, height, width,
                   selection_start, clipboard, message, message_timeout,
                   filename>>
    /\ UNCHANGED <<written, editor_lines, cursor_row, cursor_col>>

(***************************************************************************)
(* handle_input: editing keys.                                             *)
(***************************************************************************)
\* the document insert_text(text) leaves, at a cursor whose row is valid
InsertText(text) ==
    LET current_line == content[cursor_y + 1]
    IN  ListSet(content, cursor_y,
                Take(current_line, cursor_x) \o text \o Drop(current_line, cursor_x))

\* an Enter key that inserts the second half above the first
SplitLineAbove ==
    LET current_line == content[cursor_y + 1]
    IN  ListInsert(ListSet(content, cursor_y, Take(current_line, cursor_x)),
                   cursor_y, Drop(current_line, cursor_x))

\* the document the Enter key leaves, at a cursor whose row is valid
SplitLine ==
    LET current_line == content[cursor_y + 1]
    IN  ListInsert(ListSet(content, cursor_y, Take(current_line, cursor_x)),
                   cursor_y + 1, Drop(current_line, cursor_x))

\* Backspace with cursor_x > 0: the document without the character left of the cursor
DeleteLeft ==
    LET current_line == content[cursor_y + 1]
    IN  ListSet(content, cursor_y,
                Take(current_line, cursor_x - 1) \o Drop(current_line, cursor_x))

\* a join that reads the length of the previous line after the join
JoinColumnStale == Len(content[cursor_y] \o content[cursor_y + 1])

\* Backspace at column 0: the column the cursor gets, len(content[cursor_y-1])
JoinColumn == Len(content[cursor_y])

\* a join that removes row y without appending its text to row y - 1
JoinPreviousDropped == ListPop(content, cursor_y)

\* Backspace at column 0: row y joined onto row y - 1
JoinPrevious ==
    ListPop(ListSet(content, cursor_y - 1,
                    content[cursor_y] \o content[cursor_y + 1]),
            cursor_y)

\* Delete with cursor_x < len(line): the document without the character at the cursor
DeleteAt ==
    LET current_line == content[cursor_y + 1]
    IN  ListSet(content, cursor_y,
                Take(current_line, cursor_x) \o Drop(current_line, cursor_x + 1))

\* a join that leaves the next line in the document
JoinNextKept ==
    ListSet(content, cursor_y, content[cursor_y + 1] \o content[cursor_y + 2])

\* Delete at the end of a line: row y + 1 joined onto row y
JoinNext ==
    ListPop(ListSet(content, cursor_y,
                    content[cursor_y + 1] \o content[cursor_y + 2]),
            cursor_y + 1)

\* the handler raises IndexError: the exception leaves run and the program ends
Raise ==
    /\ branch' = "IndexError"
    /\ status' = "crashed"

KeyEnter ==
    /\ status = "running"
    /\ Len(content) < MaxLines
    /\ key' = "Enter"
    /\ IF ValidRow
          THEN /\ content' = SplitLine
               /\ cursor_y' = cursor_y + 1
               /\ cursor_x' = 0
               /\ branch' = "split"
               /\ status' = "running"
          ELSE /\ Raise
               /\ UNCHANGED <<content, cursor_y, cursor_x>>
    /\ UNCHANGED <<scroll_y, scroll_x, height, width, selection_start,
                   clipboard, message, message_timeout, filename>>
    /\ UNCHANGED <<written, editor_lines, cursor_row, cursor_col>>

KeyTab ==
    /\ status = "running"
    /\ SumLen(content) + Len(TabText) <= MaxTabbed
    /\ cursor_x + Len(TabText) <= MaxCol
    /\ key' = "Tab"
    /\ IF ValidRow
          THEN /\ content' = InsertText(TabText)
               /\ cursor_x' = cursor_x + Len(TabText)
               /\ branch' = "inserted"
               /\ status' = "running"
          ELSE /\ Raise
               /\ UNCHANGED <<content, cursor_x>>
    /\ UNCHANGED <<cursor_y, scroll_y, scroll_x, height, width, selection_start,
                   clipboard, message, message_timeout, filename>>
    /\ UNCHANGED <<written, editor_lines, cursor_row, cursor_col>>

KeyChar ==
    /\ status = "running"
    /\ SumLen(content) + 1 <= MaxTyped
    /\ cursor_x + 1 <= MaxCol
    /\ \E c \in Printable :
          /\ key' = c
          /\ IF ValidRow
                THEN /\ content' = InsertText(<<c>>)
                     /\ cursor_x' = cursor_x + 1
                     /\ branch' = "inserted"
                     /\ status' = "running"
                ELSE /\ Raise
                     /\ UNCHANGED <<content, cursor_x>>
    /\ UNCHANGED <<cursor_y, scroll_y, scroll_x, height, width, selection_start,
                   clipboard, message, message_timeout, filename>>
    /\ UNCHANGED <<written, editor_lines, cursor_row, cursor_col>>

KeyBackspace ==
    /\ status = "running"
    /\ key' = "Backspace"
    /\ IF cursor_x > 0
          THEN IF ValidRow
                  THEN /\ content' = DeleteLeft
                       /\ cursor_x' = cursor_x - 1
                       /\ cursor_y' = cursor_y
                       /\ branch' = "deleted"
                       /\ status' = "running"
                  ELSE /\ Raise
                       /\ UNCHANGED <<content, cursor_y, cursor_x>>
          ELSE IF cursor_y > 0
          THEN IF cursor_y - 1 >= Len(content)
                  THEN /\ Raise
                       /\ UNCHANGED <<content, cursor_y, cursor_x>>
                  ELSE IF ~ValidRow
                  THEN /\ Raise
                       /\ cursor_x' = JoinColumn
                       /\ UNCHANGED <<content, cursor_y>>
                  ELSE /\ cursor_x' = JoinColumn
                       /\ content' = JoinPrevious
                       /\ cursor_y' = cursor_y - 1
                       /\ branch' = "joined"
                       /\ status' = "running"
          ELSE /\ branch' = "none"
               /\ UNCHANGED <<content, cursor_y, cursor_x, status>>
    /\ UNCHANGED <<scroll_y, scroll_x, height, width, selection_start,
                   clipboard, message, message_timeout, filename>>
    /\ UNCHANGED <<written, editor_lines, cursor_row, cursor_col>>

KeyDelete ==
    /\ status = "running"
    /\ key' = "KEY_DC"
    /\ IF ~ValidRow
          THEN /\ Raise
               /\ content' = content
          ELSE IF cursor_x < Len(content[cursor_y + 1])
          THEN /\ content' = DeleteAt
               /\ branch' = "deleted"
               /\ status' = "running"
          ELSE IF cursor_y < Len(content) - 1
          THEN /\ content' = JoinNext
               /\ branch' = "joined"
               /\ status' = "running"
          ELSE /\ branch' = "none"
               /\ UNCHANGED <<content, status>>
    /\ UNCHANGED <<cursor_y, cursor_x, scroll_y, scroll_x, height, width,
                   selection_start, clipboard, message, message_timeout,
                   filename>>
    /\ UNCHANGED <<written, editor_lines, cursor_row, cursor_col>>

(***************************************************************************)
(* handle_input: selection keys.                                           *)
(***************************************************************************)
\* an extend that sets the anchor anew each time
ExtendAnchorRestart == <<cursor_y, cursor_x>>

\* the anchor a selection-extend key leaves: the cursor before the move when
\* no selection is active
ExtendAnchor ==
    IF selection_start = None THEN <<cursor_y, cursor_x>> ELSE selection_start

KeySR ==
    /\ MoveKey("KEY_SR", -1, 0)
    /\ selection_start' = ExtendAnchor
    /\ UNCHANGED <<content, height, width, clipboard, message,
                   message_timeout, filename>>
    /\ UNCHANGED <<written, editor_lines, cursor_row, cursor_col>>

KeySF ==
    /\ MoveKey("KEY_SF", 1, 0)
    /\ selection_start' = ExtendAnchor
    /\ UNCHANGED <<content, height, width, clipboard, message,
                   message_timeout, filename>>
    /\ UNCHANGED <<written, editor_lines, cursor_row, cursor_col>>

KeyEscape ==
    /\ status = "running"
    /\ selection_start' = None
    /\ key' = "Escape"
    /\ branch' = "cancelled"
    /\ UNCHANGED <<content, cursor_y, cursor_x, scroll_y, scroll_x, height,
                   width, clipboard, message, message_timeout, filename,
                   status>>
    /\ UNCHANGED <<written, editor_lines, cursor_row, cursor_col>>

(***************************************************************************)
(* get_selected_text, copy_text, paste_text.                               *)
(***************************************************************************)
\* a span that orders the anchor and the cursor by row only
SelectionSpanByRow(anchor, cy, cx) ==
    IF anchor[1] > cy THEN <<cy, cx, anchor[1], anchor[2]>>
    ELSE <<anchor[1], anchor[2], cy, cx>>

\* the span of the selection, start before end: <<start_y, start_x, end_y, end_x>>
SelectionSpan(anchor, cy, cx) ==
    LET start_y == anchor[1]
        start_x == anchor[2]
    IN  IF start_y > cy \/ (start_y = cy /\ start_x > cx)
           THEN <<cy, cx, start_y, start_x>>
           ELSE <<start_y, start_x, cy, cx>>

\* the list selected_text built by the loop of get_selected_text
SelectedLines(start_y, start_x, end_y, end_x) ==
    [i \in 1..(end_y - start_y + 1) |->
        LET y == start_y + i - 1
            line == content[y + 1]
        IN  IF start_y = end_y THEN Slice(line, start_x, end_x)
            ELSE IF y = start_y THEN Drop(line, start_x)
            ELSE IF y = end_y THEN Take(line, end_x)
            ELSE line]

\* a get_selected_text that returns the cursor's line when nothing is selected
SelectedTextCurrentLine(anchor, cy, cx) ==
    IF anchor = None
       THEN [ok |-> cy < Len(content),
             text |-> IF cy < Len(content) THEN content[cy + 1] ELSE <<>>]
    ELSE LET sp == SelectionSpan(anchor, cy, cx)
         IN  IF sp[3] >= Len(content) THEN [ok |-> FALSE, text |-> <<>>]
             ELSE [ok |-> TRUE,
                   text |-> JoinNL(SelectedLines(sp[1], sp[2], sp[3], sp[4]))]

\* get_selected_text with selection_start = anchor and the cursor at (cy, cx):
\* ok is FALSE when a row of the span is not in content (IndexError)
SelectedText(anchor, cy, cx) ==
    IF anchor = None THEN [ok |-> TRUE, text |-> <<>>]
    ELSE LET sp == SelectionSpan(anchor, cy, cx)
         IN  IF sp[3] >= Len(content) THEN [ok |-> FALSE, text |-> <<>>]
             ELSE [ok |-> TRUE,
                   text |-> JoinNL(SelectedLines(sp[1], sp[2], sp[3], sp[4]))]

GetSelectedText == SelectedText(selection_start, cursor_y, cursor_x)

KeyCopy ==
    /\ status = "running"
    /\ key' = "Ctrl+C"
    /\ LET sel == GetSelectedText
       IN  IF ~sel.ok
              THEN /\ Raise
                   /\ UNCHANGED <<clipboard, message, message_timeout>>
           ELSE IF sel.text = <<>>
              THEN /\ branch' = "none"
                   /\ UNCHANGED <<clipboard, message, message_timeout, status>>
           ELSE LET works == clipboard # Unavailable
                IN  /\ clipboard' = IF works THEN sel.text ELSE clipboard
                    /\ SetMessage(IF works THEN <<"Text copied to clipboard">>
                                           ELSE <<"Failed to copy: ", "PyperclipException">>)
                    /\ branch' = IF works THEN "copied" ELSE "failed"
                    /\ status' = "running"
    /\ UNCHANGED <<content, cursor_y, cursor_x, scroll_y, scroll_x, height,
                   width, selection_start, filename>>
    /\ UNCHANGED <<written, editor_lines, cursor_row, cursor_col>>

RECURSIVE InsertMiddle(_, _, _)
\* for i, line in enumerate(lines[1:-1], 1): content.insert(cursor_y + i, line)
InsertMiddle(doc, lines, i) ==
    IF i > Len(lines) - 2 THEN doc
    ELSE InsertMiddle(ListInsert(doc, cursor_y + i, lines[i + 1]), lines, i + 1)

\* a paste whose last line is inserted one row too high
PasteLinesShifted(lines) ==
    LET current_line == content[cursor_y + 1]
        doc1 == ListSet(content, cursor_y, Take(current_line, cursor_x) \o lines[1])
        doc2 == InsertMiddle(doc1, lines, 1)
    IN  ListInsert(doc2, cursor_y + Len(lines) - 2,
                   lines[Len(lines)] \o Drop(current_line, cursor_x))

\* a paste that loses the remainder of the current line
PasteLinesNoTail(lines) ==
    LET current_line == content[cursor_y + 1]
        doc1 == ListSet(content, cursor_y, Take(current_line, cursor_x) \o lines[1])
        doc2 == InsertMiddle(doc1, lines, 1)
    IN  ListInsert(doc2, cursor_y + Len(lines) - 1, lines[Len(lines)])

\* the document the multi-line branch of paste_text leaves, at a valid row
PasteLines(lines) ==
    LET current_line == content[cursor_y + 1]
        first_part == Take(current_line, cursor_x)
        last_part == Drop(current_line, cursor_x)
        doc1 == ListSet(content, cursor_y, first_part \o lines[1])
        doc2 == InsertMiddle(doc1, lines, 1)
    IN  ListInsert(doc2, cursor_y + Len(lines) - 1, lines[Len(lines)] \o last_part)

KeyPaste ==
    /\ status = "running"
    /\ key' = "Ctrl+V"
    /\ status' = "running"
    /\ LET text == clipboard
           lines == SplitNL(text)
       IN     IF text = Unavailable
                 THEN /\ SetMessage(<<"Failed to paste: ", "PyperclipException">>)
                      /\ branch' = "failed"
                      /\ UNCHANGED <<content, cursor_y, cursor_x>>
              ELSE IF text = <<>>
                 THEN /\ branch' = "none"
                      /\ UNCHANGED <<content, cursor_y, cursor_x, message,
                                     message_timeout>>
              ELSE IF ~ValidRow
                 THEN /\ SetMessage(<<"Failed to paste: ", "IndexError">>)
                      /\ branch' = "failed"
                      /\ UNCHANGED <<content, cursor_y, cursor_x>>
              ELSE /\ SumLen(content) + SumLen(lines) <= MaxPasted
                   /\ Len(content) + Len(lines) - 1 <= MaxLines
                   /\ IF Len(lines) = 1
                         THEN /\ cursor_x + Len(text) <= MaxCol
                              /\ content' = InsertText(text)
                              /\ cursor_x' = cursor_x + Len(text)
                              /\ cursor_y' = cursor_y
                              /\ branch' = "pasted"
                         ELSE /\ content' = PasteLines(lines)
                              /\ cursor_y' = cursor_y + Len(lines) - 1
                              /\ cursor_x' = Len(lines[Len(lines)])
                              /\ branch' = "pasted lines"
                   /\ SetMessage(<<"Text pasted from clipboard">>)
    /\ UNCHANGED <<scroll_y, scroll_x, height, width, selection_start,
                   clipboard, filename>>
    /\ UNCHANGED <<written, editor_lines, cursor_row, cursor_col>>

(***************************************************************************)
(* handle_input: file commands, other keys, and quitting.                  *)
(***************************************************************************)
\* how the write of save_file ends: the file is written; open() raises and
\* the file is untouched; write() raises after open() has truncated the file
SaveOutcomes == {"written", "open fails", "write fails"}

\* a save_file whose write is outside the try: a failure leaves run
SaveFileUncaught(name) ==
    LET target == IF name # NoName THEN name ELSE filename
    IN  /\ filename' = target
        /\ IF target = NoName
              THEN /\ SetMessage(<<"No filename specified">>)
                   /\ branch' = "no filename"
                   /\ UNCHANGED <<written, status>>
              ELSE \E outcome \in SaveOutcomes :
                      /\ written' = IF outcome = "written"
                                       THEN <<target, JoinNL(content)>>
                                    ELSE IF outcome = "write fails"
                                       THEN <<target, <<>> >>
                                    ELSE written
                      /\ IF outcome = "written"
                            THEN /\ SetMessage(<<"Saved: ", target>>)
                                 /\ branch' = "saved"
                                 /\ status' = "running"
                            ELSE /\ UNCHANGED <<message, message_timeout>>
                                 /\ branch' = "OSError"
                                 /\ status' = "crashed"

\* save_file(name); the branches "no filename" and "failed" return False and
\* the branch "saved" returns True
SaveFile(name) ==
    LET target == IF name # NoName THEN name ELSE filename
    IN  /\ filename' = target
        /\ IF target = NoName
              THEN /\ SetMessage(<<"No filename specified">>)
                   /\ branch' = "no filename"
                   /\ UNCHANGED <<written, status>>
              ELSE \E outcome \in SaveOutcomes :
                      /\ written' = IF outcome = "written"
                                       THEN <<target, JoinNL(content)>>
                                    ELSE IF outcome = "write fails"
                                       THEN <<target, <<>> >>
                                    ELSE written
                      /\ SetMessage(IF outcome = "written"
                                       THEN <<"Saved: ", target>>
                                       ELSE <<"Error saving file: ", outcome>>)
                      /\ branch' = IF outcome = "written" THEN "saved" ELSE "failed"
                      /\ status' = "running"

KeySave ==
    /\ status = "running"
    /\ key' = "Ctrl+S"
    /\ SaveFile(NoName)
    /\ UNCHANGED <<content, cursor_y, cursor_x, scroll_y, scroll_x, height,
                   width, selection_start, clipboard>>
    /\ UNCHANGED <<editor_lines, cursor_row, cursor_col>>

\* the paths a caller passes to save_file
SaveNames == {"f", "g"}

\* save_file(path) called with a path: the operation behind a save-as
SaveAs ==
    /\ status = "running"
    /\ key' = "save_file(path)"
    /\ \E name \in SaveNames : SaveFile(name)
    /\ UNCHANGED <<content, cursor_y, cursor_x, scroll_y, scroll_x, height,
                   width, selection_start, clipboard>>
    /\ UNCHANGED <<editor_lines, cursor_row, cursor_col>>

KeyOpen ==
    /\ status = "running"
    /\ key' = "Ctrl+O"
    /\ \E name \in FileNames \cup {NoName}, r \in ReadResults :
          IF name = NoName
             THEN /\ branch' = "none"
                  /\ UNCHANGED <<content, filename, message, message_timeout>>
             ELSE /\ filename' = name
                  /\ content' = LoadFile(r)
                  /\ message' = LoadMessage(r, name)[1]
                  /\ message_timeout' = LoadMessage(r, name)[2]
                  /\ branch' = r.kind
    /\ UNCHANGED <<cursor_y, cursor_x, scroll_y, scroll_x, height, width,
                   selection_start, clipboard, status>>
    /\ UNCHANGED <<written, editor_lines, cursor_row, cursor_col>>

KeyNew ==
    /\ status = "running"
    /\ key' = "Ctrl+N"
    /\ filename' = NoName
    /\ content' = << <<>> >>
    /\ cursor_y' = 0
    /\ cursor_x' = 0
    /\ scroll_y' = 0
    /\ scroll_x' = 0
    /\ SetMessage(<<"New file">>)
    /\ branch' = "new"
    /\ UNCHANGED <<height, width, selection_start, clipboard, status>>
    /\ UNCHANGED <<written, editor_lines, cursor_row, cursor_col>>

\* an unrecognized key that is reported in the status line
KeyOtherReported ==
    /\ status = "running"
    /\ key' = "other"
    /\ branch' = "none"
    /\ SetMessage(<<"Unknown key">>)
    /\ UNCHANGED <<content, cursor_y, cursor_x, scroll_y, scroll_x, height,
                   width, selection_start, clipboard, filename, status>>
    /\ UNCHANGED <<written, editor_lines, cursor_row, cursor_col>>

KeyOther ==
    /\ status = "running"
    /\ key' = "other"
    /\ branch' = "none"
    /\ UNCHANGED <<content, cursor_y, cursor_x, scroll_y, scroll_x, height,
                   width, selection_start, clipboard, message, message_timeout,
                   filename, status>>
    /\ UNCHANGED <<written, editor_lines, cursor_row, cursor_col>>

\* run: Ctrl+Q leaves the loop
KeyQuit ==
    /\ status = "running"
    /\ key' = "Ctrl+Q"
    /\ branch' = "break"
    /\ status' = "exited"
    /\ UNCHANGED <<content, cursor_y, cursor_x, scroll_y, scroll_x, height,
                   width, selection_start, clipboard, message, message_timeout,
                   filename>>
    /\ UNCHANGED <<written, editor_lines, cursor_row, cursor_col>>

\* a render that shows the message without counting down
RenderNoCountdown ==
    /\ status = "running"
    /\ key' = "render"
    /\ branch' = (IF message # <<>> /\ message_timeout > 0 THEN "shown" ELSE "hidden")
    /\ UNCHANGED <<content, cursor_y, cursor_x, scroll_y, scroll_x, height,
                   width, selection_start, clipboard, message, message_timeout,
                   filename, status>>
    /\ UNCHANGED <<written, editor_lines, cursor_row, cursor_col>>

\* render: the message line.  The message is drawn on the last row while it is
\* not empty and message_timeout > 0, and each draw counts the timeout down;
\* the text drawn is message[:width-1] at column 0 of a row of the window, so
\* with one cell per character addstr does not raise curses.error.
Render ==
    /\ status = "running"
    /\ key' = "render"
    /\ IF message # <<>> /\ message_timeout > 0
          THEN /\ message_timeout' = message_timeout - 1
               /\ branch' = "shown"
          ELSE /\ message_timeout' = message_timeout
               /\ branch' = "hidden"
    /\ UNCHANGED <<content, cursor_y, cursor_x, scroll_y, scroll_x, height,
                   width, selection_start, clipboard, message, filename, status>>
    /\ UNCHANGED <<written, editor_lines, cursor_row, cursor_col>>

(***************************************************************************)
(* The Editor widget of src/textual/main.py: editor_lines is its attribute *)
(* lines, cursor_row and cursor_col its cursor.  An exception raised in    *)
(* on_key ends the application.                                            *)
(***************************************************************************)
\* the texts an Editor is constructed with
EditorTexts == FileTexts \cup { <<" ", "a">> }

\* text.splitlines() or [""]
EditorLines(text) ==
    IF SplitLines(text) = <<>> THEN << <<>> >> ELSE SplitLines(text)

\* the variables of TextEditor, which the widget does not touch
TextEditorVars ==
    <<content, cursor_y, cursor_x, scroll_y, scroll_x, height, width,
      selection_start, clipboard, message, message_timeout, filename, written>>

\* Editor.__init__, with no TextEditor at work
InitEditor ==
    /\ \E text \in EditorTexts : editor_lines = EditorLines(text)
    /\ cursor_row = 0
    /\ cursor_col = 0
    /\ content = << <<>> >>
    /\ cursor_y = 0
    /\ cursor_x = 0
    /\ scroll_y = 0
    /\ scroll_x = 0
    /\ height = 9
    /\ width = 9
    /\ selection_start = None
    /\ clipboard = <<>>
    /\ message = <<>>
    /\ message_timeout = 0
    /\ filename = NoName
    /\ written = None
    /\ key = "none"
    /\ branch = "init"
    /\ status = "running"

\* move_cursor(rows, cols): the cursor <<row, col>> it leaves
EditorMoveCursor(rows, cols) ==
    LET new_row == Max(0, Min(Len(editor_lines) - 1, cursor_row + rows))
        col == IF new_row # cursor_row
                  THEN Min(cursor_col, Len(editor_lines[new_row + 1]))
                  ELSE cursor_col
    IN  <<new_row, Max(0, Min(Len(editor_lines[new_row + 1]), col + cols))>>

\* delete_character with the cursor at (row, col) of ls, row a row of ls
DeleteCharacter(ls, row, col) ==
    IF col > 0
       THEN [lines |-> ListSet(ls, row, Take(ls[row + 1], col - 1)
                                          \o Drop(ls[row + 1], col)),
             row |-> row, col |-> col - 1, branch |-> "deleted"]
    ELSE IF row > 0
       THEN LET current_line == ls[row + 1]
                popped == ListPop(ls, row)
            IN  \* cursor_col = len(lines[cursor_col]): indexed by the column
                [lines |-> ListSet(popped, row - 1, popped[row] \o current_line),
                 row |-> row - 1, col |-> Len(popped[col + 1]),
                 branch |-> "joined"]
    ELSE [lines |-> ls, row |-> row, col |-> col, branch |-> "none"]

RECURSIVE LeadingSpaces(_)
\* len(line) - len(line.lstrip())
LeadingSpaces(line) ==
    IF line # <<>> /\ Head(line) = " " THEN 1 + LeadingSpaces(Tail(line)) ELSE 0

\* " " * n
Spaces(n) == [i \in 1..n |-> " "]

\* the keys up, down, left and right of on_key
OnKeyMove(k, rows, cols) ==
    /\ status = "running"
    /\ key' = k
    /\ cursor_row' = EditorMoveCursor(rows, cols)[1]
    /\ cursor_col' = EditorMoveCursor(rows, cols)[2]
    /\ branch' = IF EditorMoveCursor(rows, cols) = <<cursor_row, cursor_col>>
                    THEN "stayed" ELSE "moved"
    /\ UNCHANGED <<editor_lines, status>>
    /\ UNCHANGED TextEditorVars

OnKeyUp == OnKeyMove("up", -1, 0)

OnKeyDown == OnKeyMove("down", 1, 0)

OnKeyLeft == OnKeyMove("left", 0, -1)

OnKeyRight == OnKeyMove("right", 0, 1)

OnKeyHome ==
    /\ status = "running"
    /\ key' = "home"
    /\ cursor_col' = 0
    /\ branch' = "moved"
    /\ UNCHANGED <<editor_lines, cursor_row, status>>
    /\ UNCHANGED TextEditorVars

OnKeyEnd ==
    /\ status = "running"
    /\ key' = "end"
    /\ cursor_col' = Len(editor_lines[cursor_row + 1])
    /\ branch' = "moved"
    /\ UNCHANGED <<editor_lines, cursor_row, status>>
    /\ UNCHANGED TextEditorVars

\* handle_enter
OnKeyEnter ==
    /\ status = "running"
    /\ Len(editor_lines) < MaxLines
    /\ SumLen(editor_lines) + LeadingSpaces(editor_lines[cursor_row + 1]) <= MaxEditorText
    /\ key' = "enter"
    /\ LET current_line == editor_lines[cursor_row + 1]
           indent == LeadingSpaces(current_line)
           before_cursor == Take(current_line, cursor_col)
           after_cursor == Drop(current_line, cursor_col)
       IN  /\ editor_lines' = ListInsert(ListSet(editor_lines, cursor_row, before_cursor),
                                         cursor_row + 1, Spaces(indent) \o after_cursor)
           /\ cursor_row' = cursor_row + 1
           /\ cursor_col' = indent
    /\ branch' = "split"
    /\ UNCHANGED status
    /\ UNCHANGED TextEditorVars

OnKeyBackspace ==
    /\ status = "running"
    /\ key' = "backspace"
    /\ LET d == DeleteCharacter(editor_lines, cursor_row, cursor_col)
       IN  /\ editor_lines' = d.lines
           /\ cursor_row' = d.row
           /\ cursor_col' = d.col
           /\ branch' = d.branch
    /\ UNCHANGED status
    /\ UNCHANGED TextEditorVars

\* delete: move_cursor(cols=1), then delete_character
OnKeyDelete ==
    /\ status = "running"
    /\ key' = "delete"
    /\ IF cursor_col < Len(editor_lines[cursor_row + 1])
          THEN LET m == EditorMoveCursor(0, 1)
                   d == DeleteCharacter(editor_lines, m[1], m[2])
               IN  /\ editor_lines' = d.lines
                   /\ cursor_row' = d.row
                   /\ cursor_col' = d.col
                   /\ branch' = d.branch
          ELSE /\ branch' = "none"
               /\ UNCHANGED <<editor_lines, cursor_row, cursor_col>>
    /\ UNCHANGED status
    /\ UNCHANGED TextEditorVars

\* a character key or tab: insert_text assigns self.linse[cursor_row], an
\* attribute the widget does not have, and raises AttributeError
OnKeyText ==
    /\ status = "running"
    /\ key' \in Printable \cup {"tab"}
    /\ branch' = "AttributeError"
    /\ status' = "crashed"
    /\ UNCHANGED <<editor_lines, cursor_row, cursor_col>>
    /\ UNCHANGED TextEditorVars

\* escape: the focus moves on and nothing of the widget changes
OnKeyEscape ==
    /\ status = "running"
    /\ key' = "escape"
    /\ branch' = "focus"
    /\ UNCHANGED <<editor_lines, cursor_row, cursor_col, status>>
    /\ UNCHANGED TextEditorVars

NextEditor ==
    \/ OnKeyUp \/ OnKeyDown \/ OnKeyLeft \/ OnKeyRight \/ OnKeyHome \/ OnKeyEnd
    \/ OnKeyEnter \/ OnKeyBackspace \/ OnKeyDelete \/ OnKeyText \/ OnKeyEscape

\* SpecEditor: the Editor widget constructed with a text, under every key of
\* on_key.
SpecEditor == InitEditor /\ [][NextEditor]_vars

(***************************************************************************)
(* The editor: every key of handle_input.                                  *)
(***************************************************************************)
Next ==
    \/ KeyResize \/ KeyUp \/ KeyDown \/ KeyLeft \/ KeyRight
    \/ KeyHome \/ KeyEnd \/ KeyPPage \/ KeyNPage
    \/ KeyEnter \/ KeyTab \/ KeyChar \/ KeyBackspace \/ KeyDelete
    \/ KeySR \/ KeySF \/ KeyEscape \/ KeyCopy \/ KeyPaste
    \/ KeySave \/ SaveAs \/ KeyOpen \/ KeyNew \/ KeyOther \/ KeyQuit
    \/ Render
    \/ NextEditor

Spec == Init /\ [][Next]_vars

(***************************************************************************)
(* The product of all keys with all environments is too large to           *)
(* enumerate, so each property is checked under the keys that write the    *)
(* variables it reads, in a terminal large enough that the viewport stays  *)
(* at the origin.                                                          *)
(*   SpecEdit:  cursor motion and the editing keys on a new document.      *)
(*   SpecPaste: SpecEdit and Ctrl+V, for every initial clipboard.          *)
(*   SpecDoc:   SpecPaste with a three-line clipboard, page motion, Ctrl+O *)
(*              and Ctrl+N.                                                *)
(*   SpecCopy:  motion, selection, Escape and Ctrl+C on an opened file.    *)
(*   SpecClip:  motion, selection, Ctrl+C and Ctrl+V on an opened file.    *)
(*   SpecFile:  Down, Right, Enter, Ctrl+S, Ctrl+O and Ctrl+N.              *)
(* The viewport is checked in small terminals, where it scrolls: SpecView  *)
(* (motion and resizing), SpecType (SpecEdit and resizing) and SpecScroll  *)
(* (update_scroll by itself).                                              *)
(* SpecOther adds an unbound key to SpecView, SpecStale joins lines under  *)
(* an anchor and a scrolled viewport, SpecSaveAs calls save_file with a    *)
(* path, and SpecMessage interleaves render with the keys as run does.     *)
(* SpecEditor is the Editor widget of src/textual/main.py by itself.       *)
(***************************************************************************)
LargeTerminal == height = 9 /\ width = 9

NextEdit ==
    \/ KeyUp \/ KeyDown \/ KeyLeft \/ KeyRight \/ KeyHome \/ KeyEnd
    \/ KeyEnter \/ KeyTab \/ KeyChar \/ KeyBackspace \/ KeyDelete

InitEdit == Init /\ LargeTerminal /\ filename = NoName /\ clipboard = <<>>

SpecEdit == InitEdit /\ [][NextEdit]_vars

NextPaste == NextEdit \/ KeyPaste

InitPaste == Init /\ LargeTerminal /\ filename = NoName

SpecPaste == InitPaste /\ [][NextPaste]_vars

NextDoc == NextPaste \/ KeyPPage \/ KeyNPage \/ KeyOpen \/ KeyNew

InitDoc == Init /\ LargeTerminal /\ filename = NoName
                /\ clipboard = <<NL, "a", NL>>

SpecDoc == InitDoc /\ [][NextDoc]_vars

InitClip == Init /\ LargeTerminal /\ filename # NoName /\ clipboard = <<>>

NextCopy ==
    \/ KeyUp \/ KeyDown \/ KeyLeft \/ KeyRight
    \/ KeySR \/ KeySF \/ KeyEscape \/ KeyCopy

SpecCopy == InitClip /\ [][NextCopy]_vars

NextClip ==
    \/ KeyUp \/ KeyDown \/ KeyLeft \/ KeyRight
    \/ KeySR \/ KeySF \/ KeyCopy \/ KeyPaste

SpecClip == InitClip /\ [][NextClip]_vars

\* SpecView: cursor motion, page motion, Home, End and resizing on an opened
\* file, in every terminal size, so that the viewport scrolls.
InitView == Init /\ filename # NoName /\ clipboard = <<>>

NextView ==
    \/ KeyUp \/ KeyDown \/ KeyLeft \/ KeyRight \/ KeyPPage \/ KeyNPage
    \/ KeyHome \/ KeyEnd \/ KeyResize

SpecView == InitView /\ [][NextView]_vars

\* SpecType: cursor motion, the editing keys and resizing on a new document,
\* in every terminal size.
InitType == Init /\ filename = NoName /\ clipboard = <<>>

NextType == NextEdit \/ KeyResize

SpecType == InitType /\ [][NextType]_vars

\* SpecOther: SpecView with Shift+Down, Escape and a key that is not handled.
NextOther == NextView \/ KeySF \/ KeyEscape \/ KeyOther

SpecOther == InitView /\ [][NextOther]_vars

\* SpecStale: Down, Shift+Down, the line-joining Backspace and Delete, new file
\* and copy on an opened file, in every terminal size: the inputs that shrink
\* the document under an anchor or a scroll origin set earlier.
NextStale ==
    \/ KeyDown \/ KeySF \/ KeyBackspace \/ KeyDelete \/ KeyNew \/ KeyCopy

SpecStale == InitView /\ [][NextStale]_vars

\* SpecFile: Down, Right, Enter and the file commands Ctrl+S, Ctrl+O and
\* Ctrl+N, started with and without a file.
InitFile == Init /\ LargeTerminal /\ clipboard = <<>>

NextFile ==
    \/ KeyDown \/ KeyRight \/ KeyEnter \/ KeySave \/ KeyOpen \/ KeyNew

SpecFile == InitFile /\ [][NextFile]_vars

\* SpecSaveAs: Enter, Ctrl+S, save_file(path) and new file from a new or an
\* opened document, every save succeeding or failing.
NextSaveAs ==
    \/ KeyEnter \/ KeySave \/ SaveAs \/ KeyNew

SpecSaveAs == InitFile /\ [][NextSaveAs]_vars

\* SpecMessage: the loop of run, one render before each key, with the keys
\* Ctrl+S and Ctrl+N, which call set_message, and a key that calls nothing.
NextMessage ==
    \/ (key # "render" /\ Render)
    \/ (key = "render" /\ (KeySave \/ KeyNew \/ KeyOther))

SpecMessage == InitFile /\ [][NextMessage]_vars

\* SpecScroll: update_scroll by itself, called twice in a row, for every
\* cursor of a three-line document, scroll offsets up to MaxScroll and
\* terminals with no, one and two frame rows.
ScrollSizes == {<<2, 2>>, <<2, 5>>, <<3, 3>>, <<4, 5>>}
ScrollDoc == << <<"a", " ">>, <<"a", " ">>, <<"a", " ">> >>

InitScroll ==
    /\ content = ScrollDoc
    /\ filename = "f"
    /\ cursor_y \in 0..(Len(ScrollDoc) - 1)
    /\ cursor_x \in 0..Len(ScrollDoc[1])
    /\ scroll_y \in 0..MaxScroll
    /\ scroll_x \in 0..MaxScroll
    /\ \E s \in ScrollSizes : height = s[1] /\ width = s[2]
    /\ selection_start = None
    /\ clipboard = <<>>
    /\ message = <<>>
    /\ written = None
    /\ message_timeout = 0
    /\ key = "none"
    /\ branch = "init"
    /\ status = "running"
    /\ editor_lines = << <<>> >>
    /\ cursor_row = 0
    /\ cursor_col = 0

CallUpdateScroll ==
    /\ status = "running"
    /\ scroll_y' = UpdateScroll(cursor_y, cursor_x)[1]
    /\ scroll_x' = UpdateScroll(cursor_y, cursor_x)[2]
    /\ key' = "update_scroll"
    /\ branch' = IF UpdateScroll(cursor_y, cursor_x) = <<scroll_y, scroll_x>>
                    THEN "kept" ELSE "scrolled"
    /\ UNCHANGED <<content, cursor_y, cursor_x, height, width, selection_start,
                   clipboard, message, message_timeout, filename, status>>
    /\ UNCHANGED <<written, editor_lines, cursor_row, cursor_col>>

SpecScroll == InitScroll /\ [][CallUpdateScroll]_vars

(***************************************************************************)
(* Properties.  The text of a document is its lines joined by newlines; a  *)
(* position (y, x) of the document is the offset of its character there.   *)
(***************************************************************************)
RECURSIVE DocText(_)
DocText(doc) ==
    IF Len(doc) = 1 THEN doc[1]
    ELSE doc[1] \o <<"\n">> \o DocText(SubSeq(doc, 2, Len(doc)))

RECURSIVE Offset(_, _, _)
Offset(doc, y, x) ==
    IF y = 0 THEN x ELSE Len(doc[1]) + 1 + Offset(SubSeq(doc, 2, Len(doc)), y - 1, x)

RECURSIVE Chars(_)
Chars(doc) == IF doc = <<>> THEN 0 ELSE Len(doc[1]) + Chars(SubSeq(doc, 2, Len(doc)))

Line == content[cursor_y + 1]
BeforeCursor == SubSeq(Line, 1, cursor_x)
AfterCursor == SubSeq(Line, cursor_x + 1, Len(Line))
LinesAbove == SubSeq(content, 1, cursor_y)
LinesBelow == SubSeq(content, cursor_y + 2, Len(content))

ValidAnchor ==
    /\ selection_start # None
    /\ selection_start[1] < Len(content)
    /\ selection_start[2] <= Len(content[selection_start[1] + 1])

\* C1: the document always has at least one line.
C1_DocumentNeverEmpty == Len(content) >= 1

\* C1: Delete at the end of the last line of the empty document was a no-op.
C1_Witness ==
    /\ key = "KEY_DC"
    /\ branch = "none"
    /\ content = << <<>> >>

\* C2: in every state the cursor is in range: 0 <= cursor_y < len(content)
\* and 0 <= cursor_x <= len(content[cursor_y]).
C2_CursorInRange ==
    /\ 0 <= cursor_y
    /\ cursor_y < Len(content)
    /\ 0 <= cursor_x
    /\ cursor_x <= Len(content[cursor_y + 1])

\* C3: a paste of n > 1 parts at a valid cursor leaves the lines above, then
\* before + parts[0], the middle parts in order, parts[n-1] + after, then the
\* lines below, and the cursor at (row + n - 1, len(parts[n-1])).
C3_PasteReflow ==
    [][ (/\ key' = "Ctrl+V"
         /\ ValidCursor
         /\ clipboard # Unavailable
         /\ Len(SplitNL(clipboard)) > 1)
        => LET parts == SplitNL(clipboard)
               n == Len(parts)
           IN  /\ content' = LinesAbove \o <<BeforeCursor \o parts[1]>>
                               \o SubSeq(parts, 2, n - 1)
                               \o <<parts[n] \o AfterCursor>> \o LinesBelow
               /\ cursor_y' = cursor_y + n - 1
               /\ cursor_x' = Len(parts[n]) ]_vars

\* C3: "\na\n" was pasted into ["a "] at (0, 1).
C3_Witness ==
    /\ key = "Ctrl+V"
    /\ branch = "pasted lines"
    /\ clipboard = <<NL, "a", NL>>
    /\ content = << <<"a">>, <<"a">>, <<" ">> >>
    /\ cursor_y = 2
    /\ cursor_x = 0

\* C4: a paste at a valid cursor adds exactly the characters of the payload's
\* parts and exactly parts.length - 1 lines; a payload of one part is spliced
\* into the current line at the cursor, which advances by its length.
C4_PasteCounts ==
    [][ (/\ key' = "Ctrl+V"
         /\ ValidCursor
         /\ clipboard # Unavailable)
        => LET parts == SplitNL(clipboard)
           IN  /\ Chars(content') = Chars(content) + Chars(parts)
               /\ Len(content') = Len(content) + Len(parts) - 1
               /\ Len(parts) = 1 =>
                     /\ content' = LinesAbove
                                     \o <<BeforeCursor \o clipboard \o AfterCursor>>
                                     \o LinesBelow
                     /\ cursor_y' = cursor_y
                     /\ cursor_x' = cursor_x + Len(clipboard) ]_vars

\* C4: " \na" was pasted into ["a"] at (0, 1).
C4_Witness ==
    /\ key = "Ctrl+V"
    /\ branch = "pasted lines"
    /\ clipboard = <<" ", NL, "a">>
    /\ content = << <<"a", " ">>, <<"a">> >>
    /\ cursor_y = 1
    /\ cursor_x = 1

\* the characters of the half-open span between the anchor and the cursor
SpanText ==
    LET text == DocText(content)
        a == Offset(content, selection_start[1], selection_start[2])
        c == Offset(content, cursor_y, cursor_x)
    IN  SubSeq(text, (IF a < c THEN a ELSE c) + 1, IF a < c THEN c ELSE a)

\* C5: with a valid anchor and cursor, get_selected_text returns exactly the
\* characters of the span [min(anchor, cursor), max(anchor, cursor)), the same
\* with the anchor and the cursor exchanged, and a copy puts them on the
\* clipboard.
C5_SelectedSpan ==
    (ValidAnchor /\ ValidCursor) =>
        /\ GetSelectedText.ok
        /\ GetSelectedText.text = SpanText
        /\ SelectedText(<<cursor_y, cursor_x>>, selection_start[1],
                        selection_start[2]) = GetSelectedText
        /\ (key = "Ctrl+C" /\ branch = "copied") => clipboard = SpanText

\* C5: the span from (0, 1) to (2, 1) of ["a ", " ", "a"] was copied.
C5_Witness ==
    /\ key = "Ctrl+C"
    /\ branch = "copied"
    /\ content = << <<"a", " ">>, <<" ">>, <<"a">> >>
    /\ selection_start = <<2, 1>>
    /\ cursor_y = 0
    /\ cursor_x = 1
    /\ clipboard = <<" ", NL, " ", NL, "a">>

\* C6: a paste that follows a successful copy leaves the text of the document
\* with the copied payload inserted once at the cursor's position.
C6_CopyThenPaste ==
    [][ (/\ key = "Ctrl+C"
         /\ branch = "copied"
         /\ key' = "Ctrl+V"
         /\ ValidCursor)
        => LET text == DocText(content)
               at == Offset(content, cursor_y, cursor_x)
           IN  /\ ValidAnchor => clipboard = SpanText
               /\ DocText(content') = SubSeq(text, 1, at) \o clipboard
                                        \o SubSeq(text, at + 1, Len(text)) ]_vars

\* C6: the span from (0, 0) to (1, 0) of ["a", " "] was copied and pasted at
\* (1, 0).
C6_Witness ==
    /\ key = "Ctrl+V"
    /\ branch = "pasted lines"
    /\ selection_start = <<0, 0>>
    /\ clipboard = <<"a", NL>>
    /\ content = << <<"a">>, <<"a">>, <<" ">> >>
    /\ cursor_y = 2
    /\ cursor_x = 0

\* C7: Backspace at a valid cursor removes the character left of the cursor
\* and moves one column left; at column 0 of a row > 0 it joins the line onto
\* the previous one and moves to (row - 1, previous length); at (0, 0) it
\* changes nothing.
C7_Backspace ==
    [][ (key' = "Backspace" /\ ValidCursor)
        => IF cursor_x > 0
              THEN /\ content' = LinesAbove
                                   \o <<SubSeq(Line, 1, cursor_x - 1) \o AfterCursor>>
                                   \o LinesBelow
                   /\ cursor_y' = cursor_y
                   /\ cursor_x' = cursor_x - 1
           ELSE IF cursor_y > 0
              THEN /\ content' = SubSeq(content, 1, cursor_y - 1)
                                   \o <<content[cursor_y] \o Line>> \o LinesBelow
                   /\ Len(content') = Len(content) - 1
                   /\ cursor_y' = cursor_y - 1
                   /\ cursor_x' = Len(content[cursor_y])
           ELSE /\ content' = content
                /\ cursor_y' = cursor_y
                /\ cursor_x' = cursor_x ]_vars

\* C7: Backspace at (1, 0) of ["a", " "] joined the lines.
C7_Witness ==
    /\ key = "Backspace"
    /\ branch = "joined"
    /\ content = << <<"a", " ">> >>
    /\ cursor_y = 0
    /\ cursor_x = 1

\* C8: Delete at a valid cursor removes the character at the cursor; at the
\* end of a line with a next line it joins the next line onto it; at the end
\* of the last line it changes nothing.  The cursor never moves.
C8_Delete ==
    [][ (key' = "KEY_DC" /\ ValidCursor)
        => /\ cursor_y' = cursor_y
           /\ cursor_x' = cursor_x
           /\ IF cursor_x < Len(Line)
                 THEN content' = LinesAbove
                                   \o <<BeforeCursor \o SubSeq(Line, cursor_x + 2, Len(Line))>>
                                   \o LinesBelow
              ELSE IF cursor_y + 1 < Len(content)
                 THEN content' = LinesAbove
                                   \o <<Line \o content[cursor_y + 2]>>
                                   \o SubSeq(content, cursor_y + 3, Len(content))
              ELSE content' = content ]_vars

\* C8: Delete at (0, 1) of ["a", " "] joined the second line onto the first.
C8_Witness ==
    /\ key = "KEY_DC"
    /\ branch = "joined"
    /\ content = << <<"a", " ">> >>
    /\ cursor_y = 0
    /\ cursor_x = 1

\* C9: Enter at a valid cursor leaves line[:col], then line[col:] as a new line
\* directly below, all other lines unchanged, and the cursor at (row + 1, 0).
C9_Enter ==
    [][ (key' = "Enter" /\ ValidCursor)
        => /\ content' = LinesAbove \o <<BeforeCursor, AfterCursor>> \o LinesBelow
           /\ Len(content') = Len(content) + 1
           /\ content'[cursor_y + 1] \o content'[cursor_y + 2] = Line
           /\ cursor_y' = cursor_y + 1
           /\ cursor_x' = 0 ]_vars

\* C9: Enter at (0, 1) of ["a", " "] left ["a", "", " "].
C9_Witness ==
    /\ key = "Enter"
    /\ branch = "split"
    /\ content = << <<"a">>, <<>>, <<" ">> >>
    /\ cursor_y = 1
    /\ cursor_x = 0

\* C10: a printable key splices its character into the line at the cursor, and
\* the Tab key splices four spaces; the column advances by the length of the
\* inserted text, and the row, the line count and the other lines are unchanged.
C10_Insert ==
    [][ ((key' \in Printable \/ key' = "Tab") /\ ValidCursor)
        => LET text == IF key' = "Tab" THEN <<" ", " ", " ", " ">> ELSE <<key'>>
           IN  /\ content' = LinesAbove
                               \o <<BeforeCursor \o text \o AfterCursor>>
                               \o LinesBelow
               /\ Len(content') = Len(content)
               /\ cursor_y' = cursor_y
               /\ cursor_x' = cursor_x + Len(text) ]_vars

\* C10: the Tab key was pressed on an empty second line.
C10_Witness ==
    /\ key = "Tab"
    /\ branch = "inserted"
    /\ content = << <<>>, <<" ", " ", " ", " ">> >>
    /\ cursor_y = 1
    /\ cursor_x = 4

\* the row a vertical move of dy rows leads to
TargetRow(dy) ==
    IF cursor_y + dy < 0 THEN 0
    ELSE IF cursor_y + dy > Len(content) - 1 THEN Len(content) - 1
    ELSE cursor_y + dy

\* the rows a vertical key moves by
KeyRows(k) ==
    IF k \in {"KEY_UP", "KEY_SR"} THEN -1
    ELSE IF k \in {"KEY_DOWN", "KEY_SF"} THEN 1
    ELSE IF k = "KEY_PPAGE" THEN 2 - height
    ELSE height - 2

\* C11: a vertical move of dy rows leaves the row cursor_y + dy clamped into
\* the document; if the row changed the column is min(old column, length of
\* the new line), otherwise the column is unchanged; the document is unchanged.
C11_VerticalMove ==
    [][ key' \in {"KEY_UP", "KEY_DOWN", "KEY_PPAGE", "KEY_NPAGE"}
        => LET row == TargetRow(KeyRows(key'))
           IN  /\ cursor_y' = row
               /\ row # cursor_y
                    => cursor_x' = (IF cursor_x < Len(content[row + 1])
                                       THEN cursor_x ELSE Len(content[row + 1]))
               /\ row = cursor_y => cursor_x' = cursor_x
               /\ content' = content ]_vars

\* C11: Page Down by two rows in a terminal of height 4 went from the first
\* line "a " to the third line "a", and the column was clamped to 1.
C11_Witness ==
    /\ key = "KEY_NPAGE"
    /\ height = 4
    /\ content = << <<"a", " ">>, <<" ">>, <<"a">> >>
    /\ cursor_y = 2
    /\ cursor_x = 1
    /\ scroll_y = 1

\* C12: a step left at column 0 of a row > 0 goes to the end of the previous
\* line; a step right at the end of a line that has a next line goes to the
\* start of the next line; a step left at (0, 0) and a step right at the end of
\* the last line leave the cursor where it is; any other step changes the
\* column by exactly one and leaves the row.
C12_HorizontalMove ==
    [][ (key' \in {"KEY_LEFT", "KEY_RIGHT"} /\ ValidCursor)
        => /\ content' = content
           /\ IF key' = "KEY_LEFT"
                 THEN IF cursor_x = 0 /\ cursor_y > 0
                         THEN /\ cursor_y' = cursor_y - 1
                              /\ cursor_x' = Len(content[cursor_y])
                      ELSE IF cursor_x = 0
                         THEN cursor_y' = cursor_y /\ cursor_x' = cursor_x
                      ELSE cursor_y' = cursor_y /\ cursor_x' = cursor_x - 1
                 ELSE IF cursor_x = Len(Line) /\ cursor_y + 1 < Len(content)
                         THEN cursor_y' = cursor_y + 1 /\ cursor_x' = 0
                      ELSE IF cursor_x = Len(Line)
                         THEN cursor_y' = cursor_y /\ cursor_x' = cursor_x
                      ELSE cursor_y' = cursor_y /\ cursor_x' = cursor_x + 1 ]_vars

\* C12: a step right at the end of the second line of ["a ", " ", "a"] went to
\* the start of the third line.
C12_Witness ==
    /\ key = "KEY_RIGHT"
    /\ content = << <<"a", " ">>, <<" ">>, <<"a">> >>
    /\ cursor_y = 2
    /\ cursor_x = 0

\* C13: Shift+Up / Shift+Down with no selection active sets selection_start
\* to the cursor as it was before the move, and with a selection active leaves
\* selection_start as it is; either way it then moves as Up / Down does.
\* Escape sets selection_start to None and changes neither the document nor
\* the cursor.
C13_SelectionLifecycle ==
    [][ /\ key' \in {"KEY_SR", "KEY_SF"}
           => LET row == TargetRow(KeyRows(key'))
              IN  /\ selection_start = None
                       => selection_start' = <<cursor_y, cursor_x>>
                  /\ selection_start # None
                       => selection_start' = selection_start
                  /\ cursor_y' = row
                  /\ cursor_x' = IF row # cursor_y /\ Len(content[row + 1]) < cursor_x
                                    THEN Len(content[row + 1]) ELSE cursor_x
                  /\ content' = content
        /\ key' = "Escape"
           => /\ selection_start' = None
              /\ content' = content
              /\ cursor_y' = cursor_y
              /\ cursor_x' = cursor_x ]_vars

\* C13: a selection begun at (0, 2) of ["a ", " ", "a"] was extended twice with
\* Shift+Down; the anchor is still (0, 2).
C13_Witness ==
    /\ key = "KEY_SF"
    /\ content = << <<"a", " ">>, <<" ">>, <<"a">> >>
    /\ selection_start = <<0, 2>>
    /\ cursor_y = 2
    /\ cursor_x = 1

\* the inputs that do not extend a selection: plain moves, Home, End, page
\* motion and edits
NonExtendingKeys ==
    {"KEY_UP", "KEY_DOWN", "KEY_LEFT", "KEY_RIGHT", "KEY_HOME", "KEY_END",
     "KEY_PPAGE", "KEY_NPAGE", "Enter", "Tab", "Backspace", "KEY_DC"}
      \cup Printable

\* C14: a non-extending input handled while a selection is active clears the
\* selection: right after it selection_start is None.
C14_NonExtendingInputClearsSelection ==
    [][ (selection_start # None /\ key' \in NonExtendingKeys)
        => selection_start' = None ]_vars

\* the cursor's screen projection lies in the frame of height - 2 rows and
\* width - 2 columns
InFrame ==
    /\ 0 <= cursor_y - scroll_y
    /\ cursor_y - scroll_y < height - 2
    /\ 0 <= cursor_x - scroll_x
    /\ cursor_x - scroll_x < width - 2

MoveKeys == {"KEY_UP", "KEY_DOWN", "KEY_LEFT", "KEY_RIGHT",
             "KEY_PPAGE", "KEY_NPAGE"}

\* C15: in a terminal with at least one frame row and one frame column, after
\* every move_cursor call from a valid cursor (single steps and page motions)
\* the cursor's screen projection lies in the frame.
C15_MoveKeepsCursorInFrame ==
    [][ (/\ key' \in MoveKeys
         /\ ValidCursor
         /\ height - 2 >= 1
         /\ width - 2 >= 1)
        => InFrame' ]_vars

\* C15: in a terminal with one frame row and one frame column, a step right to
\* the end of the third line scrolled both ways.
C15_Witness ==
    /\ key = "KEY_RIGHT"
    /\ height = 3
    /\ width = 3
    /\ cursor_y = 2
    /\ cursor_x = 1
    /\ scroll_y = 2
    /\ scroll_x = 1

\* C16: in every state in which render is called, that is after any handled
\* input (moves, Home, End, insert, Tab, Enter, Backspace, Delete, resize), the
\* cursor's screen projection lies in the frame.
C16_CursorInFrameAtRender ==
    (status = "running" /\ height - 2 >= 1 /\ width - 2 >= 1) => InFrame

\* the offset the scroll rule of the claim leaves, for a cursor coordinate c, a
\* scroll offset s and a frame of f rows or columns
ScrollRule(c, s, f) ==
    IF c < s THEN c ELSE IF c >= s + f THEN c - f + 1 ELSE s

\* the claim's scroll rule, for every terminal size: update_scroll follows the
\* rule, keeps the offsets of a cursor inside the window, and a second call
\* in a row changes nothing
C17_UpdateScrollEverySize ==
    [][ key' = "update_scroll"
        => /\ scroll_y' = ScrollRule(cursor_y, scroll_y, height - 2)
           /\ scroll_x' = ScrollRule(cursor_x, scroll_x, width - 2)
           /\ InFrame => (scroll_y' = scroll_y /\ scroll_x' = scroll_x)
           /\ key = "update_scroll"
                => (scroll_y' = scroll_y /\ scroll_x' = scroll_x) ]_vars

\* C17: in a terminal with at least one frame row and one frame column,
\* update_scroll follows the rule (scroll = cursor when the cursor is before
\* the window, cursor - frame + 1 when it is past it), keeps the offsets of a
\* cursor inside the window, and a second call in a row changes nothing.
C17_UpdateScrollMinimal ==
    [][ (key' = "update_scroll" /\ height - 2 >= 1 /\ width - 2 >= 1)
        => /\ scroll_y' = ScrollRule(cursor_y, scroll_y, height - 2)
           /\ scroll_x' = ScrollRule(cursor_x, scroll_x, width - 2)
           /\ InFrame => (scroll_y' = scroll_y /\ scroll_x' = scroll_x)
           /\ key = "update_scroll"
                => (scroll_y' = scroll_y /\ scroll_x' = scroll_x) ]_vars

\* C17: with two frame rows and three frame columns, the cursor at (2, 2) and
\* the offsets (0, 3), update_scroll scrolled down by one row and left by one
\* column.
C17_Witness ==
    /\ key = "update_scroll"
    /\ branch = "scrolled"
    /\ height = 4
    /\ width = 5
    /\ cursor_y = 2
    /\ cursor_x = 2
    /\ scroll_y = 1
    /\ scroll_x = 2

\* C18: right after a New-file or an Open-file action the document is the
\* fresh one ([""] for new; the opened file's lines, or [""] if it has none,
\* for open) and the cursor is at the origin (0, 0).
C18_NewOpenResetCursor ==
    [][ /\ key' = "Ctrl+N"
           => /\ content' = << <<>> >>
              /\ cursor_y' = 0
              /\ cursor_x' = 0
        /\ (key' = "Ctrl+O" /\ branch' # "none")
           => /\ \E r \in ReadResults : content' = LoadFile(r)
              /\ cursor_y' = 0
              /\ cursor_x' = 0 ]_vars

C20_LoadNeverRaises ==
    [][ key' = "Ctrl+O"
        => /\ status' = "running"
           /\ branch' \in {"none", "ok", "notfound", "error"}
           /\ branch' = "notfound"
                => /\ content' = << <<>> >>
                   /\ message' = <<"New file: ", filename'>>
                   /\ message_timeout' > 0
           /\ branch' = "error"
                => /\ content' = << <<>> >>
                   /\ Len(message') = 2
                   /\ message'[1] = "Error loading file: "
                   /\ message_timeout' > 0 ]_vars

\* C20: with the document ["a", ""] a file that cannot be read was opened.
C20_Witness ==
    /\ key = "Ctrl+O"
    /\ branch = "error"
    /\ content = << <<>> >>
    /\ cursor_y = 1
    /\ message = <<"Error loading file: ", "f">>

\* the keys that edit the document
EditKeys == Printable \cup {"Tab", "Enter", "Backspace", "KEY_DC", "Ctrl+V"}

\* C21: an edit operation (insert_text, Enter, Backspace, Delete, paste_text)
\* invoked with a cursor that is not a position of the document fails with a
\* reported out-of-range error and leaves content and cursor unchanged.
C21_EditRejectsInvalidCursor ==
    [][ (key' \in EditKeys /\ ~ValidCursor)
        => /\ branch' \in {"IndexError", "failed"}
           /\ content' = content
           /\ cursor_y' = cursor_y
           /\ cursor_x' = cursor_x ]_vars

\* C22: a key code that is none of the recognized inputs is a no-op: content,
\* cursor, selection_start, scroll offsets, filename and message are unchanged
\* and nothing is raised.
C22_UnknownKeyIsNoOp ==
    [][ key' = "other"
        => /\ content' = content
           /\ cursor_y' = cursor_y
           /\ cursor_x' = cursor_x
           /\ selection_start' = selection_start
           /\ scroll_y' = scroll_y
           /\ scroll_x' = scroll_x
           /\ filename' = filename
           /\ message' = message
           /\ message_timeout' = message_timeout
           /\ status' = "running" ]_vars

\* C22: an unrecognized key was pressed with a selection from (0, 0) to (1, 0)
\* in a terminal with one frame row, scrolled down by one row.
C22_Witness ==
    /\ key = "other"
    /\ selection_start = <<0, 0>>
    /\ cursor_y = 1
    /\ cursor_x = 0
    /\ height = 3
    /\ scroll_y = 1

\* the number of content rows of the viewport: the quantity the vertical
\* scroll rule compares against
FrameHeight == height - 2

\* the cursor a page motion of dy rows leaves: the row clamped into the
\* document, the column clamped to the new line's length
PageMoves(dy) ==
    LET row == TargetRow(dy)
    IN  /\ cursor_y' = row
        /\ cursor_x' = (IF cursor_x < Len(content[row + 1])
                           THEN cursor_x ELSE Len(content[row + 1]))

\* the claim with pages of frame_height - 2 rows: Page Up / Page Down move by
\* -(frame_height - 2) / +(frame_height - 2) rows
C23_PageByFrameHeightLessTwo ==
    [][ /\ (key' = "KEY_PPAGE" /\ ValidCursor) => PageMoves(-(FrameHeight - 2))
        /\ (key' = "KEY_NPAGE" /\ ValidCursor) => PageMoves(FrameHeight - 2) ]_vars

\* C23: Page Up / Page Down are vertical moves of -frame_height /
\* +frame_height rows, frame_height = height - 2 being the number of content
\* rows of the viewport; the target row is clamped into the document and the
\* column is clamped to the new line's length.
C23_PageByFrameHeight ==
    [][ /\ (key' = "KEY_PPAGE" /\ ValidCursor) => PageMoves(-FrameHeight)
        /\ (key' = "KEY_NPAGE" /\ ValidCursor) => PageMoves(FrameHeight) ]_vars

\* C23: Page Up with two frame rows went from the end of the third line of
\* ["a", "", " "] to the first line.
C23_Witness ==
    /\ key = "KEY_PPAGE"
    /\ height = 4
    /\ content = << <<"a", " ">>, <<" ">>, <<"a">> >>
    /\ cursor_y = 0
    /\ cursor_x = 1
    /\ scroll_y = 0

\* C24: copy_text never changes content, the cursor, selection_start or the
\* scroll offsets; with no selection active it is silent: the clipboard and
\* the status message are left alone and nothing is raised.
C24_CopyFrame ==
    [][ key' = "Ctrl+C" =>
          /\ content' = content
          /\ cursor_y' = cursor_y
          /\ cursor_x' = cursor_x
          /\ selection_start' = selection_start
          /\ scroll_y' = scroll_y
          /\ scroll_x' = scroll_x
          /\ selection_start = None =>
                /\ GetSelectedText.text = <<>>
                /\ clipboard' = clipboard
                /\ message' = message
                /\ message_timeout' = message_timeout
                /\ branch' = "none"
                /\ status' = "running" ]_vars

\* C24: a copy with no selection after an earlier successful copy: the
\* clipboard and the earlier message are still there.
C24_Witness ==
    /\ key = "Ctrl+C"
    /\ branch = "none"
    /\ selection_start = None
    /\ clipboard # <<>>
    /\ message = <<"Text copied to clipboard">>
    /\ cursor_x = 1

\* C25: an active selection anchor is a valid position of the document
\* (selection_start is None, or its row is a row of content and its column is
\* at most the length of that row), and copy_text never raises an index error.
C25_AnchorInDocument ==
    /\ selection_start = None \/ ValidAnchor
    /\ ~(key = "Ctrl+C" /\ branch = "IndexError")

\* C26: the scroll origin lies inside the document (0 <= scroll_y <
\* len(content), scroll_x >= 0), so render's count of visible lines,
\* min(height - 2, len(content) - scroll_y), is at least 1 when height >= 3.
C26_ScrollOriginInDocument ==
    /\ 0 <= scroll_y
    /\ scroll_y < Len(content)
    /\ scroll_x >= 0
    /\ height >= 3 => Min(height - 2, Len(content) - scroll_y) >= 1

\* C27: a save that fails is not partially applied: after save_file(path)
\* whose write fails, filename is what it was before the call.
C27_FailedSaveKeepsFilename ==
    [][ (key' = "save_file(path)" /\ branch' = "failed")
        => filename' = filename ]_vars

\* the document load_file builds from the text the last save wrote
ReloadWritten == LoadFile([kind |-> "ok", text |-> written[2]])

\* C28: a save followed by a load of the same file is the identity on the
\* document: reading back the text save_file wrote yields the same lines.
C28_SaveThenLoad ==
    (key = "Ctrl+S" /\ branch = "saved") => ReloadWritten = content

\* the document and cursor Backspace leaves at the valid cursor (y, x) of doc
BackspaceOf(doc, y, x) ==
    IF x > 0
       THEN << SubSeq(doc, 1, y)
                 \o << SubSeq(doc[y + 1], 1, x - 1)
                         \o SubSeq(doc[y + 1], x + 1, Len(doc[y + 1])) >>
                 \o SubSeq(doc, y + 2, Len(doc)),
               y, x - 1 >>
    ELSE IF y > 0
       THEN << SubSeq(doc, 1, y - 1) \o << doc[y] \o doc[y + 1] >>
                 \o SubSeq(doc, y + 2, Len(doc)),
               y - 1, Len(doc[y]) >>
    ELSE <<doc, y, x>>

\* C29: Enter immediately followed by Backspace is the identity on the
\* document and the cursor: from a valid cursor, Enter leaves a state whose
\* Backspace result is the state before the Enter, and every Backspace step
\* leaves exactly that result.
C29_EnterThenBackspace ==
    [][ /\ (key' = "Enter" /\ ValidCursor)
           => BackspaceOf(content', cursor_y', cursor_x')
                = <<content, cursor_y, cursor_x>>
        /\ (key' = "Backspace" /\ ValidCursor)
           => <<content', cursor_y', cursor_x'>>
                = BackspaceOf(content, cursor_y, cursor_x) ]_vars

\* C29: Backspace rejoined ["a", "a"], the split Enter had made of "aa" at
\* column 1, and the cursor is back at (0, 1).
C29_Witness ==
    /\ key = "Backspace"
    /\ branch = "joined"
    /\ content = << <<"a", "a">> >>
    /\ cursor_y = 0
    /\ cursor_x = 1

\* the keys of SpecMessage whose handler calls set_message on every path
SetMessageKeys == {"Ctrl+S", "Ctrl+N"}

EditorKeys ==
    {"up", "down", "left", "right", "home", "end", "enter", "backspace", "delete"}

\* C31: in the Textual Editor widget the cursor stays in range after every
\* key (0 <= cursor_row < len(lines), 0 <= cursor_col <= len(lines[cursor_row])),
\* and a Backspace at column 0 of a row > 0 leaves the cursor at the length
\* the previous line had before the join.
C31_EditorCursorInRange ==
    [][ key' \in EditorKeys =>
          /\ 0 <= cursor_row'
          /\ cursor_row' < Len(editor_lines')
          /\ 0 <= cursor_col'
          /\ cursor_col' <= Len(editor_lines'[cursor_row' + 1])
          /\ (key' = "backspace" /\ cursor_col = 0 /\ cursor_row > 0)
                => cursor_col' = Len(editor_lines[cursor_row]) ]_vars

====
